---- MODULE Spec2Model ----
(***************************************************************************)
(* State-machine model of the timelapse crate (src/src/profiler.rs,        *)
(* src/src/lib.rs): the TimeLapse timer, its Display/Debug renderings, its *)
(* log method and the exported macros profile_start! / profile_end!.       *)
(*                                                                         *)
(* Instants and durations are integers counted in milliseconds of the      *)
(* monotonic clock std::time::Instant reads.                               *)
(***************************************************************************)
EXTENDS Integers, Sequences, FiniteSets, TLC

VARIABLES
    now,        \* current reading of the monotonic clock (ms)
    nticks,     \* number of clock advances so far (bounds the exploration)
    timers,     \* identifier -> NoTimer, or the TimeLapse bound to it and whether
                \* the binding is `let mut`
    sinkState,  \* state of the process-wide logger: "uninit", "ready", "failing"
    running,    \* FALSE once a panic has unwound through the caller
    lastOp,     \* the operation executed last: what it returned, the records its
                \* info! invocations issued, those the installed logger accepted,
                \* and the lines it wrote to standard output
    hist,       \* per binding: history of captures and returned durations
    scope,      \* the identifiers the caller's code binds timers to
    keeping     \* TRUE when the caller keeps every duration elapsed returns

vars == <<now, nticks, timers, sinkState, running, lastOp, hist, scope, keeping>>

(***************************************************************************)
(* Bounds of the exploration.                                              *)
(***************************************************************************)
MaxTicks == 2

\* Lengths of the sleeps / delays between operations, in ms.
Delays == {100, 1000}

\* Identifier tokens a call site may bind a timer to.
Idents == { [kind |-> "ident", text |-> "profiler"],
            [kind |-> "ident", text |-> "the_profile"] }

\* Label texts passed to log by hand.
Labels == {"test"}

NoTimer == [kind |-> "none"]
NoHist == [created |-> FALSE]

(***************************************************************************)
(* std::time::Instant as used by the crate.                                *)
(***************************************************************************)
\* Instant::now()
Instant_now == now

\* Instant::elapsed(): Instant::now() - self, saturating at zero.
Instant_elapsed(start) ==
    IF Instant_now >= start THEN Instant_now - start ELSE 0

(***************************************************************************)
(* impl TimeLapse                                                          *)
(***************************************************************************)
\* TimeLapse::new()
new_ahead == [start_time |-> Instant_now + 1]
new == [start_time |-> Instant_now]

\* TimeLapse::elapsed(&self)
elapsed_zero(self) == 0
elapsed(self) == Instant_elapsed(self.start_time)

\* TimeLapse::reset(&mut self)
reset_noop(self) == self
reset(self) == [self EXCEPT !.start_time = Instant_now]

(***************************************************************************)
(* {:?} of a std::time::Duration holding a whole number of milliseconds:   *)
(* seconds with a trimmed fraction once a second has passed, else          *)
(* milliseconds, else nanoseconds.                                         *)
(***************************************************************************)
FracText(ms) ==
    LET h == ms \div 100
        t == (ms \div 10) % 10
        u == ms % 10
    IN  IF ms = 0 THEN ""
        ELSE IF u # 0 THEN "." \o ToString(h) \o ToString(t) \o ToString(u)
        ELSE IF t # 0 THEN "." \o ToString(h) \o ToString(t)
        ELSE "." \o ToString(h)

DurationDebug(d) ==
    IF d >= 1000 THEN ToString(d \div 1000) \o FracText(d % 1000) \o "s"
    ELSE IF d >= 1 THEN ToString(d) \o "ms"
    ELSE "0ns"

\* impl Display for TimeLapse
fmt_Display(self) == "Elapsed time: " \o DurationDebug(elapsed(self))

\* impl Debug for TimeLapse
fmt_Debug(self) == "TimeLapse { elapsed: " \o DurationDebug(elapsed(self)) \o " }"

\* TimeLapse::log(&self, name): the records its info! invocation issues.
log_debug_level(self, name) ==
    << [level |-> "Debug",
        msg |-> "TimeLapse " \o name \o " - Elapsed time: " \o DurationDebug(elapsed(self))] >>
log(self, name) ==
    << [level |-> "Info",
        msg |-> "TimeLapse " \o name \o " - Elapsed time: " \o DurationDebug(elapsed(self))] >>

\* stringify!($name): the source text of the identifier token.
stringify_metavar(tok) == "name"
stringify(tok) == tok.text

\* The macros the crate exports with #[macro_export].
ExportedMacros == {"profile_start", "profile_end"}

\* The macros the crate documentation announces.
DocumentedMacros == {"profile_start", "profile_end", "profile_end_print", "profile_end_log"}

Levels == {"Error", "Warn", "Info", "Debug", "Trace"}

(***************************************************************************)
(* info! as the log facade dispatches it: the possible results of handing  *)
(* recs to the process-wide logger.  No logger installed: the records are  *)
(* dropped.  A logger whose write fails either swallows the failure or     *)
(* panics; TimeLapse::log has no handler, so a panic unwinds to the caller.*)
(***************************************************************************)
Dispatch_expect(state, recs) ==
    CASE state = "uninit"  -> { [accepted |-> << >>, outcome |-> "panicked"] }
      [] state = "ready"   -> { [accepted |-> recs, outcome |-> "returned"] }
      [] state = "failing" -> { [accepted |-> << >>, outcome |-> "returned"],
                                [accepted |-> << >>, outcome |-> "panicked"] }
Dispatch(state, recs) ==
    CASE state = "uninit"  -> { [accepted |-> << >>, outcome |-> "returned"] }
      [] state = "ready"   -> { [accepted |-> recs, outcome |-> "returned"] }
      [] state = "failing" -> { [accepted |-> << >>, outcome |-> "returned"],
                                [accepted |-> << >>, outcome |-> "panicked"] }

(***************************************************************************)
(* Bookkeeping helpers.                                                    *)
(***************************************************************************)
NoIdent == [kind |-> "ident", text |-> ""]

Op(op, name, dur, text, outcome, emitted, accepted) ==
    [op |-> op, name |-> name, dur |-> dur, text |-> text, outcome |-> outcome,
     emitted |-> emitted, accepted |-> accepted, printed |-> << >>]

Quiet(op, name, dur, text) == Op(op, name, dur, text, "returned", << >>, << >>)

Bound(n) == timers[n] # NoTimer

Binding(self, m) == [kind |-> "timer", self |-> self, mutable |-> m]

FreshHist ==
    [created |-> TRUE, captured |-> now, wasReset |-> FALSE,
     returned |-> {}, preReset |-> {}]

Init ==
    /\ now = 0
    /\ nticks = 0
    /\ timers = [n \in Idents |-> NoTimer]
    /\ sinkState = "uninit"
    /\ running = TRUE
    /\ lastOp = Quiet("init", NoIdent, 0, "")
    /\ hist = [n \in Idents |-> NoHist]
    /\ scope = Idents
    /\ keeping = FALSE

\* A caller with a single timer that keeps the durations it reads.
InitKeeping ==
    /\ now = 0
    /\ nticks = 0
    /\ timers = [n \in Idents |-> NoTimer]
    /\ sinkState = "uninit"
    /\ running = TRUE
    /\ lastOp = Quiet("init", NoIdent, 0, "")
    /\ hist = [n \in Idents |-> NoHist]
    /\ \E n \in Idents : scope = {n}
    /\ keeping = TRUE

(***************************************************************************)
(* The environment: the clock advances (std::thread::sleep, or any work    *)
(* between two calls); the application installs a logger; the installed    *)
(* logger starts or stops failing.                                         *)
(***************************************************************************)
Sleep(d) ==
    /\ running
    /\ nticks < MaxTicks
    /\ now' = now + d
    /\ nticks' = nticks + 1
    /\ lastOp' = Quiet("sleep", NoIdent, d, "")
    /\ UNCHANGED <<timers, sinkState, running, hist, scope, keeping>>

SetLogger ==
    /\ running
    /\ sinkState = "uninit"
    /\ sinkState' = "ready"
    /\ lastOp' = Quiet("set_logger", NoIdent, 0, "")
    /\ UNCHANGED <<now, nticks, timers, running, hist, scope, keeping>>

LoggerFault ==
    /\ running
    /\ sinkState \in {"ready", "failing"}
    /\ sinkState' = IF sinkState = "ready" THEN "failing" ELSE "ready"
    /\ lastOp' = Quiet("logger_fault", NoIdent, 0, "")
    /\ UNCHANGED <<now, nticks, timers, running, hist, scope, keeping>>

(***************************************************************************)
(* The operations of TimeLapse.                                            *)
(***************************************************************************)
\* let [mut] n = TimeLapse::new();
Create(op, n, m, self) ==
    /\ running
    /\ timers' = [timers EXCEPT ![n] = Binding(self, m)]
    /\ hist' = [hist EXCEPT ![n] = FreshHist]
    /\ lastOp' = Quiet(op, n, 0, "")
    /\ UNCHANGED <<now, nticks, sinkState, running, scope, keeping>>

New(n, m) == Create("new", n, m, new)

\* let [mut] n = TimeLapse::default();
Default(n, m) == Create("default", n, m, new)

\* n.elapsed()
Elapsed_restart(n) ==
    /\ running
    /\ Bound(n)
    /\ LET d == elapsed(timers[n].self)
       IN  /\ lastOp' = Quiet("elapsed", n, d, "")
           /\ hist' = [hist EXCEPT ![n].returned = IF keeping THEN @ \cup {d} ELSE @]
    /\ timers' = [timers EXCEPT ![n].self = reset(@)]
    /\ UNCHANGED <<now, nticks, sinkState, running, scope, keeping>>
Elapsed(n) ==
    /\ running
    /\ Bound(n)
    /\ LET d == elapsed(timers[n].self)
       IN  /\ lastOp' = Quiet("elapsed", n, d, "")
           /\ hist' = [hist EXCEPT ![n].returned = IF keeping THEN @ \cup {d} ELSE @]
    /\ UNCHANGED <<now, nticks, timers, sinkState, running, scope, keeping>>

\* n.reset(), which needs a `let mut` binding
Reset_all(n) ==
    /\ running
    /\ Bound(n)
    /\ timers[n].mutable
    /\ timers' = [m \in Idents |->
                    IF Bound(m) THEN [timers[m] EXCEPT !.self = reset(@)] ELSE timers[m]]
    /\ hist' = [hist EXCEPT ![n].captured = now, ![n].wasReset = TRUE,
                            ![n].preReset = hist[n].returned]
    /\ lastOp' = Quiet("reset", n, 0, "")
    /\ UNCHANGED <<now, nticks, sinkState, running, scope, keeping>>
Reset(n) ==
    /\ running
    /\ Bound(n)
    /\ timers[n].mutable
    /\ timers' = [timers EXCEPT ![n].self = reset(@)]
    /\ hist' = [hist EXCEPT ![n].captured = now, ![n].wasReset = TRUE,
                            ![n].preReset = hist[n].returned]
    /\ lastOp' = Quiet("reset", n, 0, "")
    /\ UNCHANGED <<now, nticks, sinkState, running, scope, keeping>>

\* format!("{}", n)
Display(n) ==
    /\ running
    /\ Bound(n)
    /\ lastOp' = Quiet("display", n, elapsed(timers[n].self), fmt_Display(timers[n].self))
    /\ UNCHANGED <<now, nticks, timers, sinkState, running, hist, scope, keeping>>

\* format!("{:?}", n)
Debug(n) ==
    /\ running
    /\ Bound(n)
    /\ lastOp' = Quiet("debug", n, elapsed(timers[n].self), fmt_Debug(timers[n].self))
    /\ UNCHANGED <<now, nticks, timers, sinkState, running, hist, scope, keeping>>

\* n.log(label), under the operation name op
LogAs(op, n, label) ==
    /\ running
    /\ Bound(n)
    /\ LET recs == log(timers[n].self, label)
       IN  \E r \in Dispatch(sinkState, recs) :
              /\ running' = (r.outcome = "returned")
              /\ lastOp' = Op(op, n, elapsed(timers[n].self), label, r.outcome,
                              recs, r.accepted)
    /\ UNCHANGED <<now, nticks, timers, sinkState, hist, scope, keeping>>

Log(n, label) == LogAs("log", n, label)

(***************************************************************************)
(* The macros.  A call of a macro the crate does not export is rejected by *)
(* the compiler: nothing is bound, logged or printed.                      *)
(***************************************************************************)
CannotFindMacro(m, n, arg) ==
    /\ running
    /\ m \notin ExportedMacros
    /\ lastOp' = Op(m, n, 0, arg, "cannot_find_macro", << >>, << >>)
    /\ UNCHANGED <<now, nticks, timers, sinkState, running, hist, scope, keeping>>

\* profile_start!(n)
ProfileStart(n) ==
    /\ "profile_start" \in ExportedMacros
    /\ Create("profile_start", n, FALSE, new)

\* profile_end!(n)
ProfileEnd(n) ==
    /\ "profile_end" \in ExportedMacros
    /\ LogAs("profile_end", n, stringify(n))

\* profile_end_print!(n)
ProfileEndPrint(n) ==
    /\ "profile_end_print" \in DocumentedMacros
    /\ CannotFindMacro("profile_end_print", n, "")

\* profile_end_log!(n, level)
ProfileEndLog(n, level) ==
    /\ "profile_end_log" \in DocumentedMacros
    /\ CannotFindMacro("profile_end_log", n, level)

Next ==
    \/ \E d \in Delays : Sleep(d)
    \/ SetLogger
    \/ LoggerFault
    \/ \E n \in scope, m \in BOOLEAN : New(n, m)
    \/ \E n \in scope, m \in BOOLEAN : Default(n, m)
    \/ \E n \in scope : Elapsed(n)
    \/ \E n \in scope : Reset(n)
    \/ \E n \in scope : Display(n)
    \/ \E n \in scope : Debug(n)
    \/ \E n \in scope, l \in Labels : Log(n, l)
    \/ \E n \in scope : ProfileStart(n)
    \/ \E n \in scope : ProfileEnd(n)
    \/ \E n \in scope : ProfileEndPrint(n)
    \/ \E n \in scope, level \in Levels : ProfileEndLog(n, level)

Spec == Init /\ [][Next]_vars

SpecKeeping == InitKeeping /\ [][Next]_vars

(***************************************************************************)
(* Properties.                                                             *)
(***************************************************************************)
StartInstants == [n \in Idents |-> IF Bound(n) THEN timers[n].self.start_time ELSE -1]

Did(op, n) == lastOp.op = op /\ lastOp.name = n

Message(label, d) == "TimeLapse " \o label \o " - Elapsed time: " \o DurationDebug(d)

\* C1: elapsed(T) returns exactly the current clock value minus the clock value
\* captured by the most recent create or reset of T, whatever operations came
\* before (earlier elapsed calls included).
C1_ElapsedSinceLastCapture ==
    \A n \in Idents : Did("elapsed", n) => lastOp.dur = now - hist[n].captured

\* An elapsed call after a reset that itself came after time had passed, and with
\* time passed since: the time before the reset is excluded.
C1_Witness ==
    \E n \in Idents :
        /\ Did("elapsed", n)
        /\ hist[n].wasReset
        /\ hist[n].captured = 1000
        /\ now = 1100
        /\ lastOp.dur = 100

\* C2: in every reachable state the start_instant of every Timer is a
\* past-or-present point of the clock, and every reported elapsed value is
\* non-negative.
C2_StartInPast ==
    /\ \A n \in Idents : Bound(n) => timers[n].self.start_time <= now
    /\ lastOp.dur >= 0

\* A timer that was reset and whose start_instant now lies strictly in the past.
C2_Witness ==
    \E n \in Idents :
        /\ Bound(n)
        /\ hist[n].wasReset
        /\ timers[n].self.start_time > 0
        /\ timers[n].self.start_time < now

\* C3: if the clock has advanced by at least d since T was created and T was not
\* reset in between, elapsed(T) returns at least d.
C3_ElapsedAtLeastSlept ==
    \A n \in Idents :
        (Did("elapsed", n) /\ ~hist[n].wasReset) =>
            \A d \in 0..now : (now - hist[n].captured >= d) => lastOp.dur >= d

\* The test's scenario: create, sleep 100 ms, read at least 100 ms.
C3_Witness ==
    \E n \in Idents :
        /\ Did("elapsed", n)
        /\ ~hist[n].wasReset
        /\ now - hist[n].captured >= 100
        /\ lastOp.dur >= 100

\* C4 as stated: reset(T) followed by elapsed(T) with no clock advance in between
\* yields a duration smaller than every duration elapsed(T) returned before the
\* reset.
C4_RestartStrictlySmaller ==
    \A n \in Idents :
        (Did("elapsed", n) /\ hist[n].wasReset /\ now = hist[n].captured) =>
            \A d \in hist[n].preReset : lastOp.dur < d

\* C4 as amended: after reset(T), elapsed(T) returns exactly the clock advance
\* since the reset, so it is smaller than every earlier duration that exceeds that
\* advance; read with no advance it is zero, smaller than or equal to every
\* earlier duration and strictly smaller than every non-zero one.
C4_RestartNotLarger ==
    \A n \in Idents :
        (Did("elapsed", n) /\ hist[n].wasReset) =>
            /\ lastOp.dur = now - hist[n].captured
            /\ \A d \in hist[n].preReset :
                  /\ d > now - hist[n].captured => lastOp.dur < d
                  /\ now = hist[n].captured => (lastOp.dur <= d /\ (d > 0 => lastOp.dur < d))

\* The reset test's scenario with a reading before the reset: 100 ms were read,
\* then reset, then an immediate reading of zero.
C4_Witness ==
    \E n \in Idents :
        /\ Did("elapsed", n)
        /\ hist[n].wasReset
        /\ now = hist[n].captured
        /\ 100 \in hist[n].preReset
        /\ lastOp.dur = 0

C6_MacrosAreCreateAndLog ==
    \A n \in Idents :
        /\ Did("profile_start", n) =>
              /\ Bound(n)
              /\ timers[n].self = [start_time |-> now]
        /\ Did("profile_end", n) =>
              /\ lastOp.text = n.text
              /\ lastOp.emitted =
                    << [level |-> "Info", msg |-> Message(n.text, now - hist[n].captured)] >>

\* The macro test's scenario: started as the_profile, ended 100 ms later.
C6_Witness ==
    /\ lastOp.op = "profile_end"
    /\ lastOp.name.text = "the_profile"
    /\ lastOp.emitted =
          << [level |-> "Info", msg |-> "TimeLapse the_profile - Elapsed time: 100ms"] >>

\* C7: profile_end_print!(name) is provided and writes one message to standard
\* output, issuing no log record.
C7_EndPrintProvided ==
    lastOp.op = "profile_end_print" =>
        /\ "profile_end_print" \in ExportedMacros
        /\ lastOp.outcome = "returned"
        /\ Len(lastOp.printed) = 1
        /\ lastOp.emitted = << >>

\* C8: profile_end_log!(name, level) is provided and issues exactly one record,
\* at the level the caller passed.
C8_EndLogProvided ==
    lastOp.op = "profile_end_log" =>
        /\ "profile_end_log" \in ExportedMacros
        /\ lastOp.outcome = "returned"
        /\ Len(lastOp.emitted) = 1
        /\ lastOp.emitted[1].level = lastOp.text

LogOps == {"log", "profile_end"}

C10_Frame ==
    [][ /\ lastOp'.op \in {"elapsed", "display", "debug", "log", "profile_end"} =>
              StartInstants' = StartInstants
        /\ StartInstants' # StartInstants =>
              lastOp'.op \in {"new", "default", "profile_start", "reset"}
        /\ lastOp'.op = "reset" =>
              \A m \in Idents \ {lastOp'.name} : timers'[m] = timers[m] ]_vars

\* A reset of one timer at a moment when the other timer has been running for a
\* while: the other timer's start_instant is still in the past.
C10_Witness ==
    \E n \in Idents, m \in Idents :
        /\ n # m
        /\ Did("reset", n)
        /\ timers[n].self.start_time = now
        /\ Bound(m)
        /\ timers[m].self.start_time < now

====
